---- MODULE Spec2Model ----
(***************************************************************************)
(* Provisioning and configuration lifecycle of the SMD firmware            *)
(* (ESP32_AP-Flasher/src): the NVS configuration store (nvs_config.cpp),   *)
(* the serial provisioning protocol (serial_provisioning.cpp) and the boot *)
(* sequence that chooses between provisioning mode and normal operation    *)
(* (main_smd.cpp); then the server-controlled device configuration         *)
(* (device_config.cpp) and the heartbeat loop that refreshes it            *)
(* (main_smd.cpp, main_3dpe.cpp).  Spec is the provisioning session,      *)
(* LoopSpec the heartbeat loop, MergeSpec the merge of a fetched           *)
(* configuration, NvsSpec the store with the open and close of each        *)
(* operation, SyncSpec the loop against a server that keeps its version.   *)
(*                                                                         *)
(* Serial input is a sequence of symbols.  A symbol is a record [k, v]:    *)
(* a line terminator, a junk character, an opening brace that is never     *)
(* closed, or one complete JSON object {"k1":"v1", ...} with its members   *)
(* in v.  A symbol occupies one slot of the line buffer, so the buffer     *)
(* capacity is measured in symbols and SERIAL_BUFFER_SIZE (512 characters  *)
(* in serial_provisioning.h) is scaled down with it.  Stored strings are   *)
(* TLA+ strings with their real lengths, so the NVS length limits keep     *)
(* their source values.                                                    *)
(***************************************************************************)
EXTENDS Integers, Sequences, FiniteSets, TLC

\* nvs_config.h: maximum string lengths
MAX_SSID_LENGTH == 32
MAX_PASSWORD_LENGTH == 64
MAX_URL_LENGTH == 256

\* serial_provisioning.h: capacity of serialBuffer, in symbols (512 in the source)
SERIAL_BUFFER_SIZE == 4

\* capacity of the UART receive queue between two polls, in symbols
MaxRx == 4

\* nvs_config.cpp: NVS keys
KEY_PROVISIONED == "provisioned"
KEY_WIFI_SSID == "wifi_ssid"
KEY_WIFI_PASS == "wifi_pass"
KEY_WIFI_SSID_BK == "wifi_ssid_bk"
KEY_WIFI_PASS_BK == "wifi_pass_bk"
KEY_SERVER_URL == "server_url"

\* main_smd.cpp: identity reported by get_info
DEVICE_TYPE_STRING == "SMD_2inch9"
FIRMWARE_VERSION == "2.0.0"
MacAddress == "AA:BB:CC:DD:EE:FF"

\* values of the host's commands: one over each length limit
LongSSID == "NNNNNNNNNNNNNNNNNNNNNNNNNNNNNNNNN"
LongPassword == "ppppppppppppppppppppppppppppppppppppppppppppppppppppppppppppppppp"
LongURL == "http://uuuuuuuuuuuuuuuuuuuuuuuuuuuuuuuuuuuuuuuuuuuuuuuuuuuuuuuuuuuuuuuuuuuuuuuuuuuuuuuuuuuuuuuuuuuuuuuuuuuuuuuuuuuuuuuuuuuuuuuuuuuuuuuuuuuuuuuuuuuuuuuuuuuuuuuuuuuuuuuuuuuuuuuuuuuuuuuuuuuuuuuuuuuuuuuuuuuuuuuuuuuuuuuuuuuuuuuuuuuuuuuuuuuuuuuuuuuuuuuuuuuuuuuuuu"

VARIABLES
    pc,                 \* main_smd.cpp: "setup", "provisioning" (enterProvisioningMode) or "running"
    store,              \* the NVS namespace smd_config: a function from the keys present to their values
    serialBuffer,       \* SerialProvisioning::serialBuffer[0 .. bufferIndex-1]
    bufferIndex,        \* SerialProvisioning::bufferIndex
    restartRequested,   \* SerialProvisioning::restartRequested
    commandProcessed,   \* the value returned by the last processSerial call
    runtimeSSID,        \* main_smd.cpp: runtimeSSID
    runtimeServerURL,   \* main_smd.cpp: runtimeServerURL
    rx,                 \* characters received and not yet read (Serial.available / Serial.read)
    out,                \* lines written to Serial by the processSerial call that just returned
    menu,               \* host: the vocabulary of this session's host
    pending,            \* host: the rest of the line it is sending
    line,               \* history: the characters received since the last terminator
    tooLong,            \* history: command_too_long responses written since the last terminator
    sent,               \* history: what the host's set_wifi / set_server commands said since the last reset
    log,                \* history: one entry per terminator or overflow of the call that just returned
    polled,             \* history: "no", or how the processSerial call that just returned found
                        \* the line: "fresh" (at its start) or "resumed" (partly received)
    currentConfig,      \* DeviceConfigManager::currentConfig
    configLoaded,       \* DeviceConfigManager::configLoaded
    offered,            \* server: the fields its sparse config response carries
    published,          \* server: the config_version it has published
    calls,              \* history: the calls made by the setup() or loop() that just returned
    preferences         \* NVSConfig::preferences: whether the namespace is open, and (history)
                        \* the key accesses of the NVSConfig operation that just returned

vars == <<pc, store, serialBuffer, bufferIndex, restartRequested, commandProcessed,
          runtimeSSID, runtimeServerURL, rx, out, menu, pending, line, tooLong, sent, log,
          polled, currentConfig, configLoaded, offered, published, calls,
          preferences>>

\* the serial session and its host
serialVars == <<serialBuffer, bufferIndex, restartRequested, commandProcessed,
                rx, out, menu, pending, line, tooLong, sent, log, polled>>

\* the device configuration and its server
configVars == <<currentConfig, configLoaded, offered, published, calls>>

-----------------------------------------------------------------------------
(* Preferences: a namespace of key/value pairs; a missing key reads as the *)
(* caller's default.                                                       *)

EmptyStore == [k \in {} |-> ""]

prefGet(s, key, defaultValue) == IF key \in DOMAIN s THEN s[key] ELSE defaultValue

prefPut(s, key, value) == [k \in DOMAIN s \cup {key} |-> IF k = key THEN value ELSE s[k]]

prefClear(s) == EmptyStore

\* The Preferences object.  p is [started, readOnly, store, accesses]:
\* accesses notes, for every get, put or clear, the key and whether the
\* namespace was open.  A namespace that is not open reads as the caller's
\* default and ignores writes, and so does a write to one opened read-only.
Closed == [started |-> FALSE, readOnly |-> FALSE, accesses |-> <<>>]

\* the object at the start of an NVSConfig operation on the namespace s
Preferences(s) == [started |-> FALSE, readOnly |-> FALSE, accesses |-> <<>>, store |-> s]

Access(op, key, p) == [op |-> op, key |-> key, started |-> p.started]

accessed(p, op, key) == [p EXCEPT !.accesses = Append(@, Access(op, key, p))]

begin(p, readOnly) == [p EXCEPT !.started = TRUE, !.readOnly = readOnly]

end(p) == [p EXCEPT !.started = FALSE]

getPref(p, key, defaultValue) ==
    [value |-> IF p.started THEN prefGet(p.store, key, defaultValue) ELSE defaultValue,
     p |-> accessed(p, "get", key)]

putPref(p, key, value) ==
    accessed(IF p.started /\ ~p.readOnly THEN [p EXCEPT !.store = prefPut(@, key, value)] ELSE p,
             "put", key)

clearPref(p) ==
    accessed(IF p.started /\ ~p.readOnly THEN [p EXCEPT !.store = prefClear(@)] ELSE p,
             "clear", "")

-----------------------------------------------------------------------------
(* Serial output.  A line is a JSON document (a protocol response) or a    *)
(* plain log line.  m is the state a command works on:                     *)
(* [store, out, restartRequested].                                         *)

JsonLine(doc) == [json |-> TRUE, doc |-> doc]

LogLine(text, arg) == [json |-> FALSE, doc |-> [text |-> text, arg |-> arg]]

SerialPrint(m, l) == [m EXCEPT !.out = Append(@, l)]

-----------------------------------------------------------------------------
(* NVSConfig                                                               *)

\* isProvisioned answering false whatever is stored
isProvisioned_Never(s) == FALSE

isProvisioned(s) == prefGet(s, KEY_PROVISIONED, FALSE)

getWiFiSSID(s) == prefGet(s, KEY_WIFI_SSID, "")

getWiFiPassword(s) == prefGet(s, KEY_WIFI_PASS, "")

getWiFiSSIDBackup(s) == prefGet(s, KEY_WIFI_SSID_BK, "")

getWiFiPasswordBackup(s) == prefGet(s, KEY_WIFI_PASS_BK, "")

getServerURL(s) == prefGet(s, KEY_SERVER_URL, "")

setProvisioned(m, value) ==
    SerialPrint([m EXCEPT !.store = prefPut(@, KEY_PROVISIONED, value)],
                LogLine("[NVS] Provisioned set to", IF value THEN "true" ELSE "false"))

\* setWiFiSSID writing the key of the backup network
setWiFiSSID_BackupKey(m, ssid) ==
    IF Len(ssid) > MAX_SSID_LENGTH
    THEN SerialPrint(m, LogLine("[NVS] Error: SSID too long", ""))
    ELSE SerialPrint([m EXCEPT !.store = prefPut(@, KEY_WIFI_SSID_BK, ssid)],
                     LogLine("[NVS] WiFi SSID set to", ssid))

setWiFiSSID(m, ssid) ==
    IF Len(ssid) > MAX_SSID_LENGTH
    THEN SerialPrint(m, LogLine("[NVS] Error: SSID too long", ""))
    ELSE SerialPrint([m EXCEPT !.store = prefPut(@, KEY_WIFI_SSID, ssid)],
                     LogLine("[NVS] WiFi SSID set to", ssid))

setWiFiPassword(m, password) ==
    IF Len(password) > MAX_PASSWORD_LENGTH
    THEN SerialPrint(m, LogLine("[NVS] Error: Password too long", ""))
    ELSE SerialPrint([m EXCEPT !.store = prefPut(@, KEY_WIFI_PASS, password)],
                     LogLine("[NVS] WiFi password set", ""))

setWiFiSSIDBackup(m, ssid) ==
    IF Len(ssid) > MAX_SSID_LENGTH
    THEN SerialPrint(m, LogLine("[NVS] Error: Backup SSID too long", ""))
    ELSE SerialPrint([m EXCEPT !.store = prefPut(@, KEY_WIFI_SSID_BK, ssid)],
                     LogLine("[NVS] Backup WiFi SSID set to", ssid))

\* setWiFiPasswordBackup without the check of the length
setWiFiPasswordBackup_Unchecked(m, password) ==
    SerialPrint([m EXCEPT !.store = prefPut(@, KEY_WIFI_PASS_BK, password)],
                LogLine("[NVS] Backup WiFi password set", ""))

setWiFiPasswordBackup(m, password) ==
    IF Len(password) > MAX_PASSWORD_LENGTH
    THEN SerialPrint(m, LogLine("[NVS] Error: Backup password too long", ""))
    ELSE SerialPrint([m EXCEPT !.store = prefPut(@, KEY_WIFI_PASS_BK, password)],
                     LogLine("[NVS] Backup WiFi password set", ""))

setServerURL(m, url) ==
    IF Len(url) > MAX_URL_LENGTH
    THEN SerialPrint(m, LogLine("[NVS] Error: Server URL too long", ""))
    ELSE SerialPrint([m EXCEPT !.store = prefPut(@, KEY_SERVER_URL, url)],
                     LogLine("[NVS] Server URL set to", url))

\* clearAll resetting the provisioned flag and leaving the credentials
clearAll_FlagOnly(m) ==
    SerialPrint([m EXCEPT !.store = prefPut(@, KEY_PROVISIONED, FALSE)],
                LogLine("[NVS] All configuration cleared", ""))

clearAll(m) ==
    SerialPrint([m EXCEPT !.store = prefClear(@)],
                LogLine("[NVS] All configuration cleared", ""))


\* The same operations with their open and close: p is the Preferences object.
ensureOpen(p, readOnly) == begin(p, readOnly)

close(p) == end(p)

\* isProvisioned, getWiFiSSID, getWiFiPassword, getWiFiSSIDBackup,
\* getWiFiPasswordBackup, getServerURL: open read-only, read the key, close
scopedGet(p, key, defaultValue) ==
    LET r == getPref(ensureOpen(p, TRUE), key, defaultValue)
    IN  [value |-> r.value, p |-> close(r.p)]

\* setWiFiSSID, setWiFiPassword, setWiFiSSIDBackup, setWiFiPasswordBackup,
\* setServerURL: a value over its limit returns before the open
scopedPut(p, key, max, value) ==
    IF Len(value) > max THEN p ELSE close(putPref(ensureOpen(p, FALSE), key, value))

\* setProvisioned
scopedPutBool(p, key, value) == close(putPref(ensureOpen(p, FALSE), key, value))

\* clearAll
scopedClear(p) == close(clearPref(ensureOpen(p, FALSE)))

\* the text between the quotes of a password member of the summary
masked(password) == IF Len(password) > 0 THEN "****" ELSE ""

\* getConfigSummary: the JSON text, as its members, and the object afterwards
getConfigSummary(p) ==
    LET ssid == getPref(ensureOpen(p, TRUE), KEY_WIFI_SSID, "")
        ssidBackup == getPref(ssid.p, KEY_WIFI_SSID_BK, "")
        serverUrl == getPref(ssidBackup.p, KEY_SERVER_URL, "")
        provisioned == getPref(serverUrl.p, KEY_PROVISIONED, FALSE)
        pass == getPref(close(provisioned.p), KEY_WIFI_PASS, "")
        passBackup == getPref(pass.p, KEY_WIFI_PASS_BK, "")
    IN  [json |-> [provisioned |-> IF provisioned.value THEN "true" ELSE "false",
                   wifi_ssid |-> ssid.value,
                   wifi_password |-> masked(pass.value),
                   wifi_ssid_backup |-> ssidBackup.value,
                   wifi_password_backup |-> masked(passBackup.value),
                   server_url |-> serverUrl.value],
         p |-> passBackup.p]

-----------------------------------------------------------------------------
(* Input symbols and ArduinoJson's view of a command line.                 *)

Sym(k, v) == [k |-> k, v |-> v]

Member(key, value) == [k |-> key, v |-> value]

Obj(members) == Sym("{}", members)
LB == Sym("{", <<>>)
NL == Sym("\n", <<>>)
CR == Sym("\r", <<>>)
X  == Sym("x", <<>>)

IsTerminator(c) == c = NL \/ c = CR

Null == <<>>

\* deserializeJson: the text must start with a complete object; whatever
\* follows the object is not read.  A text that is empty, starts with
\* anything else, or ends inside the object is an error.
deserializeJson(json) ==
    IF json = <<>> \/ json[1].k # "{}"
    THEN [error |-> TRUE, doc |-> <<>>]
    ELSE [error |-> FALSE, doc |-> json[1].v]

\* doc[key] read as const char*: Null when the member is absent.  Keys are
\* unique within every object the host sends.
Field(doc, key) ==
    LET at == {i \in DOMAIN doc : doc[i].k = key}
    IN  IF at = {} THEN Null ELSE <<doc[CHOOSE i \in at : TRUE].v>>

-----------------------------------------------------------------------------
(* SerialProvisioning                                                      *)

sendResponse(m, status, message) ==
    SerialPrint(m, JsonLine([status |-> status, msg |-> message]))

sendDeviceInfo(m) ==
    SerialPrint(m, JsonLine([status |-> "ok",
                             mac |-> MacAddress,
                             type |-> DEVICE_TYPE_STRING,
                             version |-> FIRMWARE_VERSION,
                             provisioned |-> isProvisioned(m.store)]))

\* sendConfig reporting the stored password with the rest
sendConfig_WithPassword(m) ==
    SerialPrint(m, JsonLine([status |-> "ok",
                             config |-> [provisioned |-> isProvisioned(m.store),
                                         wifi_ssid |-> getWiFiSSID(m.store),
                                         wifi_password |-> getWiFiPassword(m.store),
                                         wifi_ssid_backup |-> getWiFiSSIDBackup(m.store),
                                         server_url |-> getServerURL(m.store)]]))

\* sendConfig withdrawing a restart request
sendConfig_ClearsRestart(m) ==
    SerialPrint([m EXCEPT !.restartRequested = FALSE],
                JsonLine([status |-> "ok",
                          config |-> [provisioned |-> isProvisioned(m.store),
                                      wifi_ssid |-> getWiFiSSID(m.store),
                                      wifi_ssid_backup |-> getWiFiSSIDBackup(m.store),
                                      server_url |-> getServerURL(m.store)]]))

sendConfig(m) ==
    SerialPrint(m, JsonLine([status |-> "ok",
                             config |-> [provisioned |-> isProvisioned(m.store),
                                         wifi_ssid |-> getWiFiSSID(m.store),
                                         wifi_ssid_backup |-> getWiFiSSIDBackup(m.store),
                                         server_url |-> getServerURL(m.store)]]))

cmdSetWifi(m, doc) ==
    LET ssid == Field(doc, "ssid")
        password == Field(doc, "password")
    IN  IF ssid = Null
        THEN sendResponse(m, "error", "missing_ssid")
        ELSE LET m1 == setWiFiSSID(m, ssid[1])
                 m2 == IF password # Null THEN setWiFiPassword(m1, password[1]) ELSE m1
             IN  sendResponse(m2, "ok", "wifi_set")

\* set_wifi_backup storing an empty password when the command carries none
cmdSetWifiBackup_EmptyPassword(m, doc) ==
    LET ssid == Field(doc, "ssid")
        password == Field(doc, "password")
    IN  IF ssid = Null
        THEN sendResponse(m, "error", "missing_ssid")
        ELSE LET m1 == setWiFiSSIDBackup(m, ssid[1])
                 m2 == setWiFiPasswordBackup(m1, IF password # Null THEN password[1] ELSE "")
             IN  sendResponse(m2, "ok", "wifi_backup_set")

cmdSetWifiBackup(m, doc) ==
    LET ssid == Field(doc, "ssid")
        password == Field(doc, "password")
    IN  IF ssid = Null
        THEN sendResponse(m, "error", "missing_ssid")
        ELSE LET m1 == setWiFiSSIDBackup(m, ssid[1])
                 m2 == IF password # Null THEN setWiFiPasswordBackup(m1, password[1]) ELSE m1
             IN  sendResponse(m2, "ok", "wifi_backup_set")

\* set_server returning without a response when url is missing
cmdSetServer_Silent(m, doc) ==
    LET url == Field(doc, "url")
    IN  IF url = Null
        THEN m
        ELSE sendResponse(setServerURL(m, url[1]), "ok", "server_set")

cmdSetServer(m, doc) ==
    LET url == Field(doc, "url")
    IN  IF url = Null
        THEN sendResponse(m, "error", "missing_url")
        ELSE sendResponse(setServerURL(m, url[1]), "ok", "server_set")

\* provision without the check of the server URL
cmdProvision_NoUrlCheck(m) ==
    IF Len(getWiFiSSID(m.store)) = 0
    THEN sendResponse(m, "error", "wifi_not_configured")
    ELSE [sendResponse(setProvisioned(m, TRUE), "ok", "provisioned")
             EXCEPT !.restartRequested = TRUE]

\* provision checking the server URL before the SSID
cmdProvision_UrlFirst(m) ==
    IF Len(getServerURL(m.store)) = 0
    THEN sendResponse(m, "error", "server_not_configured")
    ELSE IF Len(getWiFiSSID(m.store)) = 0
    THEN sendResponse(m, "error", "wifi_not_configured")
    ELSE [sendResponse(setProvisioned(m, TRUE), "ok", "provisioned")
             EXCEPT !.restartRequested = TRUE]

cmdProvision(m) ==
    LET ssid == getWiFiSSID(m.store)
        serverUrl == getServerURL(m.store)
    IN  IF Len(ssid) = 0
        THEN sendResponse(m, "error", "wifi_not_configured")
        ELSE IF Len(serverUrl) = 0
        THEN sendResponse(m, "error", "server_not_configured")
        ELSE [sendResponse(setProvisioned(m, TRUE), "ok", "provisioned")
                 EXCEPT !.restartRequested = TRUE]

cmdReset(m) ==
    [sendResponse(clearAll(m), "ok", "config_cleared") EXCEPT !.restartRequested = TRUE]

\* reboot wiping the store as reset does
cmdReboot_Wipes(m) ==
    [sendResponse(clearAll(m), "ok", "rebooting") EXCEPT !.restartRequested = TRUE]

cmdReboot(m) ==
    [sendResponse(m, "ok", "rebooting") EXCEPT !.restartRequested = TRUE]

executeCommand(m, json) ==
    LET r == deserializeJson(json)
        cmd == Field(r.doc, "cmd")
    IN  IF r.error THEN sendResponse(m, "error", "invalid_json")
        ELSE IF cmd = Null THEN sendResponse(m, "error", "missing_cmd")
        ELSE IF cmd[1] = "get_info" THEN sendDeviceInfo(m)
        ELSE IF cmd[1] = "get_config" THEN sendConfig(m)
        ELSE IF cmd[1] = "set_wifi" THEN cmdSetWifi(m, r.doc)
        ELSE IF cmd[1] = "set_wifi_backup" THEN cmdSetWifiBackup(m, r.doc)
        ELSE IF cmd[1] = "set_server" THEN cmdSetServer(m, r.doc)
        ELSE IF cmd[1] = "provision" THEN cmdProvision(m)
        ELSE IF cmd[1] = "reset" THEN cmdReset(m)
        ELSE IF cmd[1] = "reboot" THEN cmdReboot(m)
        ELSE sendResponse(m, "error", "unknown_command")

TooLongLine == JsonLine([status |-> "error", msg |-> "command_too_long"])

\* readChar leaving commandProcessed as it was when it dispatches a command
readChar_NotCounted(p, c) ==
    IF IsTerminator(c)
    THEN IF p.bufferIndex > 0
         THEN [p EXCEPT !.m = executeCommand(@, SubSeq(p.serialBuffer, 1, p.bufferIndex)),
                        !.handed = <<SubSeq(p.serialBuffer, 1, p.bufferIndex)>>,
                        !.serialBuffer = <<>>,
                        !.bufferIndex = 0]
         ELSE [p EXCEPT !.handed = Null]
    ELSE IF p.bufferIndex < SERIAL_BUFFER_SIZE - 1
    THEN [p EXCEPT !.serialBuffer = Append(@, c),
                   !.bufferIndex = @ + 1,
                   !.handed = Null]
    ELSE [p EXCEPT !.m = SerialPrint(@, TooLongLine),
                   !.serialBuffer = <<>>,
                   !.bufferIndex = 0,
                   !.handed = Null]

\* the loop of processSerial storing a character while bufferIndex is below
\* SERIAL_BUFFER_SIZE
readChar_OffByOne(p, c) ==
    IF IsTerminator(c)
    THEN IF p.bufferIndex > 0
         THEN [p EXCEPT !.m = executeCommand(@, SubSeq(p.serialBuffer, 1, p.bufferIndex)),
                        !.handed = <<SubSeq(p.serialBuffer, 1, p.bufferIndex)>>,
                        !.commandProcessed = TRUE,
                        !.serialBuffer = <<>>,
                        !.bufferIndex = 0]
         ELSE [p EXCEPT !.handed = Null]
    ELSE IF p.bufferIndex < SERIAL_BUFFER_SIZE
    THEN [p EXCEPT !.serialBuffer = Append(@, c),
                   !.bufferIndex = @ + 1,
                   !.handed = Null]
    ELSE [p EXCEPT !.m = SerialPrint(@, TooLongLine),
                   !.serialBuffer = <<>>,
                   !.bufferIndex = 0,
                   !.handed = Null]

\* One iteration of the loop of processSerial on the character c.  p is
\* [m, serialBuffer, bufferIndex, commandProcessed, handed]; handed is the
\* text this iteration passed to executeCommand, Null if it passed none.
readChar(p, c) ==
    IF IsTerminator(c)
    THEN IF p.bufferIndex > 0
         THEN [p EXCEPT !.m = executeCommand(@, SubSeq(p.serialBuffer, 1, p.bufferIndex)),
                        !.handed = <<SubSeq(p.serialBuffer, 1, p.bufferIndex)>>,
                        !.commandProcessed = TRUE,
                        !.serialBuffer = <<>>,
                        !.bufferIndex = 0]
         ELSE [p EXCEPT !.handed = Null]
    ELSE IF p.bufferIndex < SERIAL_BUFFER_SIZE - 1
    THEN [p EXCEPT !.serialBuffer = Append(@, c),
                   !.bufferIndex = @ + 1,
                   !.handed = Null]
    ELSE [p EXCEPT !.m = SerialPrint(@, TooLongLine),
                   !.serialBuffer = <<>>,
                   !.bufferIndex = 0,
                   !.handed = Null]

-----------------------------------------------------------------------------
(* JSON values of the HTTP bodies.  A body is a text of input symbols, as  *)
(* a command line is; the value of a member is a number, a boolean, null   *)
(* or an object.                                                           *)

JInt(n) == [t |-> "int", v |-> n]
JBool(b) == [t |-> "bool", v |-> b]
JNull == [t |-> "null", v |-> 0]
JObj(members) == [t |-> "obj", v |-> members]

containsKey(doc, key) == Field(doc, key) # Null

\* JsonVariant::isNull(): the member is absent or null
isNull(x) == x = Null \/ x[1].t = "null"

\* as<int>(): the number; 0 for an absent member and for null
asInt(x) ==
    IF x = Null THEN 0
    ELSE IF x[1].t = "int" THEN x[1].v
    ELSE 0

\* as<bool>(): the boolean; a number reads as true unless it is 0; false for
\* an absent member and for null
asBool(x) ==
    IF x = Null THEN FALSE
    ELSE IF x[1].t = "bool" THEN x[1].v
    ELSE IF x[1].t = "int" THEN x[1].v # 0
    ELSE x[1].t = "obj"

\* as<JsonObject>(): the members of an object; a null object for anything else
asObject(x) ==
    IF x = Null \/ x[1].t # "obj" THEN [null |-> TRUE, members |-> <<>>]
    ELSE [null |-> FALSE, members |-> x[1].v]

\* what HTTPClient hands back: the status code and the body
Http(code, body) == [code |-> code, body |-> body]

-----------------------------------------------------------------------------
(* DeviceConfigManager                                                     *)

DEFAULT_DEVICE_CONFIG ==
    [heartbeat_interval_seconds |-> 60,
     wifi_timeout_seconds |-> 30,
     display_refresh_on_heartbeat |-> FALSE,
     display_rotation |-> 1,
     show_logo |-> TRUE,
     screen_brightness |-> 100,
     deep_sleep_enabled |-> FALSE,
     wake_on_button |-> TRUE,
     template_id |-> 0,
     content_refresh_seconds |-> 300,
     config_version |-> 1]

\* mergeInt putting the default in the place of a member that is absent
mergeInt_Default(config, key, old) ==
    IF containsKey(config, key) THEN asInt(Field(config, key)) ELSE DEFAULT_DEVICE_CONFIG[key]

\* if (config.containsKey(key)) currentConfig.key = config[key].as<int>();
\* the value of the field afterwards, old being its value before
mergeInt(config, key, old) ==
    IF containsKey(config, key) THEN asInt(Field(config, key)) ELSE old

\* if (config.containsKey(key)) currentConfig.key = config[key].as<bool>();
mergeBool(config, key, old) ==
    IF containsKey(config, key) THEN asBool(Field(config, key)) ELSE old

\* template_id null leaving the local value as it was
mergeTemplate_NullKeeps(config, old) ==
    IF containsKey(config, "template_id")
    THEN IF isNull(Field(config, "template_id")) THEN old
         ELSE asInt(Field(config, "template_id"))
    ELSE old

\* template_id can be null, treat as 0
mergeTemplate(config, old) ==
    IF containsKey(config, "template_id")
    THEN IF isNull(Field(config, "template_id")) THEN 0
         ELSE asInt(Field(config, "template_id"))
    ELSE old

\* the assignments of parseConfigJson, one per field; config_version is read
\* from the top level of the document
mergeConfig(cfg, doc, config) ==
    [heartbeat_interval_seconds |->
         mergeInt(config, "heartbeat_interval_seconds", cfg.heartbeat_interval_seconds),
     wifi_timeout_seconds |-> mergeInt(config, "wifi_timeout_seconds", cfg.wifi_timeout_seconds),
     display_refresh_on_heartbeat |->
         mergeBool(config, "display_refresh_on_heartbeat", cfg.display_refresh_on_heartbeat),
     display_rotation |-> mergeInt(config, "display_rotation", cfg.display_rotation),
     show_logo |-> mergeBool(config, "show_logo", cfg.show_logo),
     screen_brightness |-> mergeInt(config, "screen_brightness", cfg.screen_brightness),
     deep_sleep_enabled |-> mergeBool(config, "deep_sleep_enabled", cfg.deep_sleep_enabled),
     wake_on_button |-> mergeBool(config, "wake_on_button", cfg.wake_on_button),
     template_id |-> mergeTemplate(config, cfg.template_id),
     content_refresh_seconds |->
         mergeInt(config, "content_refresh_seconds", cfg.content_refresh_seconds),
     config_version |-> mergeInt(doc, "config_version", cfg.config_version)]

\* parseConfigJson merging the config object before it looks at the success flag
parseConfigJson_MergeFirst(cfg, json) ==
    LET r == deserializeJson(json)
        config == asObject(Field(r.doc, "config"))
    IN  IF r.error THEN [ok |-> FALSE, config |-> cfg]
        ELSE IF config.null THEN [ok |-> FALSE, config |-> cfg]
        ELSE IF ~asBool(Field(r.doc, "success"))
        THEN [ok |-> FALSE, config |-> mergeConfig(cfg, r.doc, config.members)]
        ELSE [ok |-> TRUE, config |-> mergeConfig(cfg, r.doc, config.members)]

\* parseConfigJson on the configuration cfg: [ok, config]
parseConfigJson(cfg, json) ==
    LET r == deserializeJson(json)
        config == asObject(Field(r.doc, "config"))
    IN  IF r.error THEN [ok |-> FALSE, config |-> cfg]
        ELSE IF ~asBool(Field(r.doc, "success")) THEN [ok |-> FALSE, config |-> cfg]
        ELSE IF config.null THEN [ok |-> FALSE, config |-> cfg]
        ELSE [ok |-> TRUE, config |-> mergeConfig(cfg, r.doc, config.members)]

\* fetchConfig on d = [config, configLoaded]; connected is WiFi.status() and
\* response what the GET returns: [ok, d]
fetchConfig(d, connected, response) ==
    IF ~connected THEN [ok |-> FALSE, d |-> d]
    ELSE IF response.code = 200
    THEN LET r == parseConfigJson(d.config, response.body)
         IN  IF r.ok
             THEN [ok |-> TRUE, d |-> [config |-> r.config, configLoaded |-> TRUE]]
             ELSE [ok |-> FALSE, d |-> [d EXCEPT !.config = r.config]]
    ELSE [ok |-> FALSE, d |-> d]

\* needsRefresh asking for a newer version
needsRefresh_Newer(cfg, serverVersion) == serverVersion > cfg.config_version

needsRefresh(cfg, serverVersion) == serverVersion # cfg.config_version

getConfigVersion(cfg) == cfg.config_version

-----------------------------------------------------------------------------
(* Heartbeat and version check (main_smd.cpp, main_3dpe.cpp).  w is        *)
(* [d, calls]: the state of DeviceConfigManager and the calls made so far. *)
(* env is what the environment answers during one setup() or loop():       *)
(* WiFi.status() at each place that reads it and the HTTP responses.       *)

Call(name, input, result, before, after) ==
    [call |-> name, input |-> input, result |-> result, before |-> before, after |-> after]

noted(w, c) == [w EXCEPT !.calls = Append(@, c)]

\* fetchContent() and the display's renderContent / updateSmartPrinterStatus
render(w) == noted(w, Call("render", Null, TRUE, w.d.config, w.d.config))

\* the config_version of the heartbeat response, or -1
sendHeartbeat(connected, response) ==
    IF ~connected THEN -1
    ELSE IF response.code = 200
    THEN LET r == deserializeJson(response.body)
         IN  IF ~r.error /\ containsKey(r.doc, "config_version")
             THEN asInt(Field(r.doc, "config_version"))
             ELSE -1
    ELSE -1

\* DeviceConfigManager::fetchConfig as setup() and checkAndUpdateConfig call it
fetched(w, env) ==
    LET f == fetchConfig(w.d, env.atFetch, env.config)
    IN  [ok |-> f.ok,
         w |-> noted([w EXCEPT !.d = f.d],
                     Call("fetchConfig", [connected |-> env.atFetch, response |-> env.config],
                          f.ok, w.d.config, f.d.config))]

\* checkAndUpdateConfig adopting the heartbeat's version after a successful fetch
checkAndUpdateConfig_Adopts(w, serverConfigVersion, env) ==
    IF serverConfigVersion < 0 THEN [updated |-> FALSE, w |-> w]
    ELSE IF needsRefresh(w.d.config, serverConfigVersion)
    THEN LET f == fetched(w, env)
         IN  IF f.ok
             THEN [updated |-> TRUE,
                   w |-> render([f.w EXCEPT !.d.config.config_version = serverConfigVersion])]
             ELSE [updated |-> FALSE, w |-> f.w]
    ELSE [updated |-> FALSE, w |-> w]

\* checkAndUpdateConfig: [updated, w]
checkAndUpdateConfig(w, serverConfigVersion, env) ==
    IF serverConfigVersion < 0 THEN [updated |-> FALSE, w |-> w]
    ELSE IF needsRefresh(w.d.config, serverConfigVersion)
    THEN LET f == fetched(w, env)
         IN  IF f.ok
             THEN [updated |-> TRUE, w |-> render(f.w)]
             ELSE [updated |-> FALSE, w |-> f.w]
    ELSE [updated |-> FALSE, w |-> w]

\* one iteration of loop()
loop(w, env) ==
    IF env.connected
    THEN LET serverConfigVersion == sendHeartbeat(env.atHeartbeat, env.heartbeat)
             w1 == noted(w, Call("sendHeartbeat",
                                 [connected |-> env.atHeartbeat, response |-> env.heartbeat],
                                 serverConfigVersion, w.d.config, w.d.config))
             r == checkAndUpdateConfig(w1, serverConfigVersion, env)
         IN  IF ~r.updated /\ r.w.d.config.display_refresh_on_heartbeat
             THEN render(r.w)
             ELSE r.w
    ELSE IF env.reconnected THEN render(w) ELSE w

\* setup() from loadRuntimeConfig on: connect, fetch the configuration, show
\* the content
setupOnline(w, env) ==
    LET w1 == IF env.connected THEN fetched(w, env).w ELSE w
    IN  IF env.atContent THEN render(w1) ELSE w1

-----------------------------------------------------------------------------
(* History of a processSerial call: what the host sent and what each       *)
(* iteration did.  h is [line, tooLong, sent, log].                        *)

NothingSent == [ssid |-> "", url |-> "", within |-> TRUE]

Written(p, q) == SubSeq(q.m.out, Len(p.m.out) + 1, Len(q.m.out))

CountTooLong(lines) == Cardinality({i \in DOMAIN lines : lines[i] = TooLongLine})

\* the host's view of the command in text: the ssid of its last set_wifi, the
\* url of its last set_server, and whether all of them were within the limits
noteCommand(s, text) ==
    LET r == deserializeJson(text)
        cmd == Field(r.doc, "cmd")
        ssid == Field(r.doc, "ssid")
        password == Field(r.doc, "password")
        url == Field(r.doc, "url")
    IN  IF r.error \/ cmd = Null THEN s
        ELSE IF cmd[1] = "set_wifi" /\ ssid # Null
        THEN [s EXCEPT !.ssid = ssid[1],
                       !.within = @ /\ Len(ssid[1]) <= MAX_SSID_LENGTH
                                    /\ (password = Null \/ Len(password[1]) <= MAX_PASSWORD_LENGTH)]
        ELSE IF cmd[1] = "set_server" /\ url # Null
        THEN [s EXCEPT !.url = url[1], !.within = @ /\ Len(url[1]) <= MAX_URL_LENGTH]
        ELSE IF cmd[1] = "reset" THEN NothingSent
        ELSE s

Entry(kind, h, p, q, received) ==
    [kind |-> kind,
     line |-> received,
     handed |-> q.handed,
     tooLong |-> h.tooLong + CountTooLong(Written(p, q)),
     pre |-> p.m.store,
     post |-> q.m.store,
     restartBefore |-> p.m.restartRequested,
     restartAfter |-> q.m.restartRequested,
     indexBefore |-> p.bufferIndex,
     indexAfter |-> q.bufferIndex,
     written |-> Written(p, q),
     sent |-> h.sent]

observe(h, p, q, c) ==
    IF IsTerminator(c)
    THEN [line |-> <<>>,
          tooLong |-> 0,
          sent |-> IF q.handed = Null THEN h.sent ELSE noteCommand(h.sent, q.handed[1]),
          log |-> Append(h.log, Entry("eol", h, p, q, h.line))]
    ELSE [line |-> Append(h.line, c),
          tooLong |-> h.tooLong + CountTooLong(Written(p, q)),
          sent |-> h.sent,
          log |-> IF Written(p, q) = <<>> THEN h.log
                  ELSE Append(h.log, Entry("ovf", h, p, q, Append(h.line, c)))]

\* while (Serial.available()) { c = Serial.read(); ... }
RECURSIVE drain(_, _, _)
drain(p, h, input) ==
    IF input = <<>> THEN [p |-> p, h |-> h]
    ELSE LET q == readChar(p, Head(input))
         IN  drain(q, observe(h, p, q, Head(input)), Tail(input))

-----------------------------------------------------------------------------
(* The host.  It sends one character at a time, line after line.           *)

Junk(n) == [i \in 1..n |-> X]

Cmd(name) == <<Obj(<<Member("cmd", name)>>), NL>>

SetWifi(cmd, ssid, password) ==
    <<Obj(<<Member("cmd", cmd), Member("ssid", ssid), Member("password", password)>>), NL>>

SetSsid(cmd, ssid) == <<Obj(<<Member("cmd", cmd), Member("ssid", ssid)>>), NL>>

SetServer(url) == <<Obj(<<Member("cmd", "set_server"), Member("url", url)>>), NL>>

\* Each session of the host speaks one of these vocabularies.

\* the provisioning sequence and its guards
ProvisioningLines ==
    { SetWifi("set_wifi", "Net1", "pw"), SetSsid("set_wifi", ""), SetServer("http://x"),
      Cmd("provision"), Cmd("reset"), Cmd("get_info") }

\* writing and reading back, within and over the length limits
ReadbackLines ==
    { SetWifi("set_wifi", "Net1", "pw"), SetSsid("set_wifi", "Net2"),
      SetServer("http://x"), SetServer(LongURL), Cmd("get_config") }

\* passwords and the backup network
PasswordLines ==
    { SetWifi("set_wifi", "Net1", "pw"), SetWifi("set_wifi", "Net2", LongPassword),
      SetWifi("set_wifi_backup", "Bk1", "pw2"), Cmd("get_config"), Cmd("get_info"),
      Cmd("reset") }

\* restart requests
RestartLines ==
    { SetSsid("set_wifi", "Net1"), SetServer("http://x"), SetServer(""),
      Cmd("provision"), Cmd("reboot"), Cmd("get_config") }

\* lines the protocol answers with an error, and empty lines
ErrorLines ==
    { Cmd("frobnicate"), <<Obj(<<>>), NL>>, <<LB, NL>>, <<X, NL>>,
      <<Obj(<<Member("cmd", "set_wifi"), Member("password", "pw")>>), NL>>,
      Cmd("set_wifi_backup"), Cmd("set_server"),
      <<Obj(<<Member("cmd", "get_config")>>), CR, NL>> }

\* lines at and over the capacity of the buffer
LongLines ==
    { Junk(SERIAL_BUFFER_SIZE - 1) \o <<NL>>,
      Junk(SERIAL_BUFFER_SIZE) \o <<NL>>,
      Junk(SERIAL_BUFFER_SIZE + 1) \o Cmd("get_info"),
      Junk(SERIAL_BUFFER_SIZE) \o Cmd("reset"),
      Junk(2 * SERIAL_BUFFER_SIZE) \o <<NL>>,
      SetWifi("set_wifi", "Net1", "pw") }

\* values over the length limits, alone and next to values within them
LimitLines ==
    { SetWifi("set_wifi_backup", "Bk1", "pw2"),
      SetWifi("set_wifi_backup", LongSSID, "pw"),
      SetWifi("set_wifi_backup", "Bk2", LongPassword),
      SetWifi("set_wifi", LongSSID, LongPassword),
      SetSsid("set_wifi_backup", "Bk3") }

Menus == {"provisioning", "readback", "passwords", "restart", "errors", "long", "limits"}

LinesOf(name) ==
    CASE name = "provisioning" -> ProvisioningLines
      [] name = "readback" -> ReadbackLines
      [] name = "passwords" -> PasswordLines
      [] name = "restart" -> RestartLines
      [] name = "errors" -> ErrorLines
      [] name = "long" -> LongLines
      [] name = "limits" -> LimitLines

-----------------------------------------------------------------------------
(* State machine                                                           *)

Init ==
    /\ pc = "setup"
    /\ store = EmptyStore
    /\ serialBuffer = <<>>
    /\ bufferIndex = 0
    /\ restartRequested = FALSE
    /\ commandProcessed = FALSE
    /\ runtimeSSID = ""
    /\ runtimeServerURL = ""
    /\ rx = <<>>
    /\ out = <<>>
    /\ menu \in Menus
    /\ pending = <<>>
    /\ line = <<>>
    /\ tooLong = 0
    /\ sent = NothingSent
    /\ log = <<>>
    /\ polled = "no"
    /\ currentConfig = DEFAULT_DEVICE_CONFIG
    /\ configLoaded = FALSE
    /\ offered = {}
    /\ published = DEFAULT_DEVICE_CONFIG.config_version
    /\ calls = <<>>
    /\ preferences = Closed

\* the host puts the next character of its line on the wire
HostSend ==
    /\ Len(rx) < MaxRx
    /\ \E l \in IF pending = <<>> THEN LinesOf(menu) ELSE {pending} :
          /\ rx' = Append(rx, Head(l))
          /\ pending' = Tail(l)
    /\ out' = <<>>
    /\ log' = <<>>
    /\ polled' = "no"
    /\ UNCHANGED <<pc, store, serialBuffer, bufferIndex, restartRequested, commandProcessed,
                   runtimeSSID, runtimeServerURL, menu, line, tooLong, sent>>
    /\ UNCHANGED configVars
    /\ UNCHANGED preferences

\* setup(): provisioning mode unless the store says provisioned
Setup ==
    /\ pc = "setup"
    /\ IF ~isProvisioned(store)
       THEN /\ pc' = "provisioning"
            /\ bufferIndex' = 0
            /\ restartRequested' = FALSE
            /\ UNCHANGED <<runtimeSSID, runtimeServerURL>>
       ELSE /\ pc' = "running"
            /\ runtimeSSID' = getWiFiSSID(store)
            /\ runtimeServerURL' = getServerURL(store)
            /\ UNCHANGED <<bufferIndex, restartRequested>>
    /\ out' = <<>>
    /\ log' = <<>>
    /\ polled' = "no"
    /\ UNCHANGED <<store, serialBuffer, commandProcessed, rx, menu, pending, line, tooLong, sent>>
    /\ UNCHANGED configVars
    /\ UNCHANGED preferences

\* one iteration of the loop of enterProvisioningMode: processSerial()
ProcessSerial ==
    /\ pc = "provisioning"
    /\ ~restartRequested
    /\ LET p0 == [m |-> [store |-> store, out |-> <<>>, restartRequested |-> restartRequested],
                  serialBuffer |-> serialBuffer,
                  bufferIndex |-> bufferIndex,
                  commandProcessed |-> FALSE,
                  handed |-> Null]
           h0 == [line |-> line, tooLong |-> tooLong, sent |-> sent, log |-> <<>>]
           r == drain(p0, h0, rx)
       IN  /\ store' = r.p.m.store
           /\ out' = r.p.m.out
           /\ restartRequested' = r.p.m.restartRequested
           /\ serialBuffer' = r.p.serialBuffer
           /\ bufferIndex' = r.p.bufferIndex
           /\ commandProcessed' = r.p.commandProcessed
           /\ line' = r.h.line
           /\ tooLong' = r.h.tooLong
           /\ sent' = r.h.sent
           /\ log' = r.h.log
    /\ rx' = <<>>
    /\ polled' = IF line = <<>> THEN "fresh" ELSE "resumed"
    /\ UNCHANGED <<pc, runtimeSSID, runtimeServerURL, menu, pending>>
    /\ UNCHANGED configVars
    /\ UNCHANGED preferences

\* the loop of enterProvisioningMode ends: ESP.restart()
Restart ==
    /\ pc = "provisioning"
    /\ restartRequested
    /\ pc' = "setup"
    /\ serialBuffer' = <<>>
    /\ bufferIndex' = 0
    /\ restartRequested' = FALSE
    /\ commandProcessed' = FALSE
    /\ rx' = <<>>
    /\ out' = <<>>
    /\ line' = <<>>
    /\ tooLong' = 0
    /\ log' = <<>>
    /\ polled' = "no"
    /\ UNCHANGED <<store, runtimeSSID, runtimeServerURL, menu, pending, sent>>
    /\ UNCHANGED configVars
    /\ UNCHANGED preferences

\* the running device is reset or power-cycled: the next boot starts in setup()
PowerCycle ==
    /\ pc = "running"
    /\ pc' = "setup"
    /\ serialBuffer' = <<>>
    /\ bufferIndex' = 0
    /\ restartRequested' = FALSE
    /\ commandProcessed' = FALSE
    /\ runtimeSSID' = ""
    /\ runtimeServerURL' = ""
    /\ rx' = <<>>
    /\ out' = <<>>
    /\ line' = <<>>
    /\ tooLong' = 0
    /\ log' = <<>>
    /\ polled' = "no"
    /\ UNCHANGED <<store, menu, pending, sent>>
    /\ UNCHANGED configVars
    /\ UNCHANGED preferences

Next == HostSend \/ Setup \/ ProcessSerial \/ Restart \/ PowerCycle

Spec == Init /\ [][Next]_vars

-----------------------------------------------------------------------------
(* The server.                                                             *)

\* config_version values the server reports: -MaxVersion .. MaxVersion
MaxVersion == 2

Versions == (0 - MaxVersion) .. MaxVersion

ConfigFields ==
    {"heartbeat_interval_seconds", "wifi_timeout_seconds", "display_refresh_on_heartbeat",
     "display_rotation", "show_logo", "screen_brightness", "deep_sleep_enabled",
     "wake_on_button", "template_id", "content_refresh_seconds"}

Body(members) == <<Obj(members)>>

\* a full configuration, every field away from its default
FullMembers ==
    <<Member("heartbeat_interval_seconds", JInt(120)),
      Member("wifi_timeout_seconds", JInt(10)),
      Member("display_refresh_on_heartbeat", JBool(TRUE)),
      Member("display_rotation", JInt(3)),
      Member("show_logo", JBool(FALSE)),
      Member("screen_brightness", JInt(50)),
      Member("deep_sleep_enabled", JBool(TRUE)),
      Member("wake_on_button", JBool(FALSE)),
      Member("template_id", JInt(7)),
      Member("content_refresh_seconds", JInt(600))>>

FullConfig ==
    Http(200, Body(<<Member("success", JBool(TRUE)),
                     Member("config_version", JInt(2)),
                     Member("config", JObj(FullMembers))>>))

\* the members of a sparse configuration, of which a response carries some
SparseMembers ==
    <<Member("heartbeat_interval_seconds", JInt(30)),
      Member("wifi_timeout_seconds", JInt(20)),
      Member("display_refresh_on_heartbeat", JBool(FALSE)),
      Member("display_rotation", JInt(2)),
      Member("show_logo", JBool(TRUE)),
      Member("screen_brightness", JInt(80)),
      Member("deep_sleep_enabled", JBool(TRUE)),
      Member("wake_on_button", JBool(FALSE)),
      Member("template_id", JNull),
      Member("content_refresh_seconds", JInt(900))>>

\* the members whose keys are in fields
RECURSIVE Only(_, _)
Only(members, fields) ==
    IF members = <<>> THEN <<>>
    ELSE IF Head(members).k \in fields
    THEN <<Head(members)>> \o Only(Tail(members), fields)
    ELSE Only(Tail(members), fields)

SparseConfig(fields) ==
    Http(200, Body(<<Member("success", JBool(TRUE)),
                     Member("config", JObj(Only(SparseMembers, fields)))>>))

\* a new version of the configuration, nothing else changed
VersionedConfig(v) ==
    Http(200, Body(<<Member("success", JBool(TRUE)),
                     Member("config_version", JInt(v)),
                     Member("config", JObj(<<>>))>>))

\* display_refresh_on_heartbeat switched on or off, the version as it was
RefreshConfig(refresh) ==
    Http(200, Body(<<Member("success", JBool(TRUE)),
                     Member("config", JObj(<<Member("display_refresh_on_heartbeat", JBool(refresh))>>))>>))

\* responses fetchConfig fails on; their bodies carry values that differ from
\* every configuration the device can hold
Stale == <<Member("display_rotation", JInt(0)), Member("template_id", JInt(9))>>
StaleVersion == JInt(MaxVersion + 1)

FailedConfigs ==
    {Http(404, <<>>),
     Http(500, Body(<<Member("success", JBool(TRUE)), Member("config_version", StaleVersion),
                      Member("config", JObj(Stale))>>)),
     Http(200, <<>>),
     Http(200, <<X>>),
     Http(200, <<LB>>),
     Http(200, Body(<<Member("success", JBool(FALSE)), Member("config_version", StaleVersion),
                      Member("config", JObj(Stale))>>)),
     Http(200, Body(<<Member("config_version", StaleVersion), Member("config", JObj(Stale))>>)),
     Http(200, Body(<<Member("success", JBool(TRUE)), Member("config_version", StaleVersion)>>)),
     Http(200, Body(<<Member("success", JBool(TRUE)), Member("config_version", StaleVersion),
                      Member("config", JNull)>>))}

\* what the config endpoint answers in a session of version checks
LoopConfigs ==
    FailedConfigs
    \cup {VersionedConfig(v) : v \in Versions}
    \cup {RefreshConfig(refresh) : refresh \in BOOLEAN}

\* what the config endpoint answers in a session of merges
MergeConfigs(fields) == {FullConfig, SparseConfig(fields)}

\* what the heartbeat endpoint answers
Heartbeats ==
    {Http(500, Body(<<Member("config_version", StaleVersion)>>)),
     Http(200, <<X>>),
     Http(200, Body(<<>>))}
    \cup {Http(200, Body(<<Member("config_version", JInt(v))>>)) : v \in Versions}

\* no request was made
NoResponse == Http(0, <<>>)

\* WiFi.status() in fetchConfig and, when connected, what the GET returns
FetchEnvs(configs) ==
    {[atFetch |-> FALSE, config |-> NoResponse]}
    \cup {[atFetch |-> TRUE, config |-> c] : c \in configs}

\* the environment of setup(): connectToWiFi, then fetchConfig, then
\* WiFi.status() before the content is shown
SetupEnvs ==
    {[connected |-> FALSE, atFetch |-> FALSE, config |-> NoResponse, atContent |-> a] :
        a \in BOOLEAN}
    \cup {[connected |-> TRUE, atFetch |-> f.atFetch, config |-> f.config, atContent |-> a] :
        f \in FetchEnvs(LoopConfigs), a \in BOOLEAN}

\* the environment of one loop(): WiFi.status() in loop, then either
\* connectToWiFi or WiFi.status() in sendHeartbeat, the POST and fetchConfig
LoopEnvs ==
    {[connected |-> FALSE, reconnected |-> r, atHeartbeat |-> FALSE, heartbeat |-> NoResponse,
      atFetch |-> FALSE, config |-> NoResponse] : r \in BOOLEAN}
    \cup {[connected |-> TRUE, reconnected |-> FALSE, atHeartbeat |-> FALSE,
           heartbeat |-> NoResponse, atFetch |-> f.atFetch, config |-> f.config] :
        f \in FetchEnvs(LoopConfigs)}
    \cup {[connected |-> TRUE, reconnected |-> FALSE, atHeartbeat |-> TRUE, heartbeat |-> h,
           atFetch |-> f.atFetch, config |-> f.config] :
        h \in Heartbeats, f \in FetchEnvs(LoopConfigs)}

-----------------------------------------------------------------------------
(* The device after provisioning: setup() has passed the isProvisioned()   *)
(* check.                                                                  *)

ProvisionedStore ==
    prefPut(prefPut(prefPut(prefPut(EmptyStore, KEY_WIFI_SSID, "Net1"), KEY_WIFI_PASS, "pw"),
                    KEY_SERVER_URL, "http://x"), KEY_PROVISIONED, TRUE)

Provisioned ==
    /\ pc = "running"
    /\ store = ProvisionedStore
    /\ serialBuffer = <<>>
    /\ bufferIndex = 0
    /\ restartRequested = FALSE
    /\ commandProcessed = FALSE
    /\ runtimeSSID = getWiFiSSID(ProvisionedStore)
    /\ runtimeServerURL = getServerURL(ProvisionedStore)
    /\ rx = <<>>
    /\ out = <<>>
    /\ menu = "provisioning"
    /\ pending = <<>>
    /\ line = <<>>
    /\ tooLong = 0
    /\ sent = NothingSent
    /\ log = <<>>
    /\ polled = "no"
    /\ currentConfig = DEFAULT_DEVICE_CONFIG
    /\ configLoaded = FALSE
    /\ calls = <<>>
    /\ preferences = Closed

LoopInit ==
    Provisioned /\ offered = {} /\ published = DEFAULT_DEVICE_CONFIG.config_version

\* setup() goes on: WiFi, the first fetch of the configuration, the display
SetupOnline ==
    /\ pc = "running"
    /\ \E env \in SetupEnvs :
          LET w == setupOnline([d |-> [config |-> currentConfig, configLoaded |-> configLoaded],
                                calls |-> <<>>], env)
          IN  /\ currentConfig' = w.d.config
              /\ configLoaded' = w.d.configLoaded
              /\ calls' = w.calls
    /\ pc' = "loop"
    /\ UNCHANGED <<store, runtimeSSID, runtimeServerURL, offered, published>>
    /\ UNCHANGED serialVars
    /\ UNCHANGED preferences

\* loop(): one heartbeat cycle
Loop ==
    /\ pc = "loop"
    /\ \E env \in LoopEnvs :
          LET w == loop([d |-> [config |-> currentConfig, configLoaded |-> configLoaded],
                         calls |-> <<>>], env)
          IN  /\ currentConfig' = w.d.config
              /\ configLoaded' = w.d.configLoaded
              /\ calls' = w.calls
    /\ UNCHANGED <<pc, store, runtimeSSID, runtimeServerURL, offered, published>>
    /\ UNCHANGED serialVars
    /\ UNCHANGED preferences

LoopNext == SetupOnline \/ Loop

LoopSpec == LoopInit /\ [][LoopNext]_vars

\* The merge alone: the server answers with a full configuration or with a
\* sparse one that carries the fields offered.
MergeInit ==
    /\ Provisioned
    /\ offered \in SUBSET ConfigFields
    /\ published = DEFAULT_DEVICE_CONFIG.config_version

\* a call of DeviceConfigManager::fetchConfig
FetchConfig ==
    /\ \E env \in FetchEnvs(MergeConfigs(offered)) :
          LET f == fetched([d |-> [config |-> currentConfig, configLoaded |-> configLoaded],
                            calls |-> <<>>], env)
          IN  /\ currentConfig' = f.w.d.config
              /\ configLoaded' = f.w.d.configLoaded
              /\ calls' = f.w.calls
    /\ UNCHANGED <<pc, store, runtimeSSID, runtimeServerURL, offered, published>>
    /\ UNCHANGED serialVars
    /\ UNCHANGED preferences

MergeNext == FetchConfig

MergeSpec == MergeInit /\ [][MergeNext]_vars

\* Version synchronization: after a setup() in any environment, WiFi stays
\* connected and the server keeps the version it has published: every
\* heartbeat reports it, and every fetch of the configuration succeeds and
\* carries it.  loop() runs again and again.
SyncInit == Provisioned /\ offered = {} /\ published \in Versions

PublishedConfig(v, members) ==
    Http(200, Body(<<Member("success", JBool(TRUE)),
                     Member("config_version", JInt(v)),
                     Member("config", JObj(members))>>))

SyncConfigs(v) ==
    {PublishedConfig(v, <<>>), PublishedConfig(v, FullMembers)}
    \cup {PublishedConfig(v, <<Member("display_refresh_on_heartbeat", JBool(refresh))>>) :
            refresh \in BOOLEAN}

SyncEnvs(v) ==
    {[connected |-> TRUE, reconnected |-> FALSE, atHeartbeat |-> TRUE,
      heartbeat |-> Http(200, Body(<<Member("config_version", JInt(v))>>)),
      atFetch |-> TRUE, config |-> c] : c \in SyncConfigs(v)}

\* loop(): one heartbeat cycle against that server
SyncLoop ==
    /\ pc = "loop"
    /\ \E env \in SyncEnvs(published) :
          LET w == loop([d |-> [config |-> currentConfig, configLoaded |-> configLoaded],
                         calls |-> <<>>], env)
          IN  /\ currentConfig' = w.d.config
              /\ configLoaded' = w.d.configLoaded
              /\ calls' = w.calls
    /\ UNCHANGED <<pc, store, runtimeSSID, runtimeServerURL, offered, published>>
    /\ UNCHANGED serialVars
    /\ UNCHANGED preferences

SyncNext == SetupOnline \/ SyncLoop

SyncSpec == SyncInit /\ [][SyncNext]_vars /\ WF_vars(SetupOnline) /\ WF_vars(SyncLoop)

Passwords == {"", "secret"}

WithPasswords(s, p, q) == prefPut(prefPut(s, KEY_WIFI_PASS, p), KEY_WIFI_PASS_BK, q)

\* The store alone: NVSConfig operations called one after another on a
\* namespace that holds some configuration.
Stores ==
    {WithPasswords(base, p, q) : base \in {EmptyStore, ProvisionedStore}, p \in Passwords,
                                 q \in Passwords}

StringKeys ==
    {[key |-> KEY_WIFI_SSID, max |-> MAX_SSID_LENGTH, values |-> {"Net2", LongSSID}],
     [key |-> KEY_WIFI_PASS, max |-> MAX_PASSWORD_LENGTH, values |-> {"", "pw2", LongPassword}],
     [key |-> KEY_WIFI_SSID_BK, max |-> MAX_SSID_LENGTH, values |-> {"Bk1"}],
     [key |-> KEY_WIFI_PASS_BK, max |-> MAX_PASSWORD_LENGTH, values |-> {"", "pw3"}],
     [key |-> KEY_SERVER_URL, max |-> MAX_URL_LENGTH, values |-> {"http://y", LongURL}]}

NvsInit ==
    /\ pc = "running"
    /\ store \in Stores
    /\ serialBuffer = <<>>
    /\ bufferIndex = 0
    /\ restartRequested = FALSE
    /\ commandProcessed = FALSE
    /\ runtimeSSID = ""
    /\ runtimeServerURL = ""
    /\ rx = <<>>
    /\ out = <<>>
    /\ menu = "provisioning"
    /\ pending = <<>>
    /\ line = <<>>
    /\ tooLong = 0
    /\ sent = NothingSent
    /\ log = <<>>
    /\ polled = "no"
    /\ currentConfig = DEFAULT_DEVICE_CONFIG
    /\ configLoaded = FALSE
    /\ offered = {}
    /\ published = DEFAULT_DEVICE_CONFIG.config_version
    /\ calls = <<>>
    /\ preferences = Closed

\* the operation returned: what it left of the object, and what it returned
Returned(name, input, result, p) ==
    /\ store' = p.store
    /\ preferences' = [started |-> p.started, readOnly |-> p.readOnly, accesses |-> p.accesses]
    /\ calls' = <<Call(name, input, result, store, p.store)>>
    /\ UNCHANGED <<pc, runtimeSSID, runtimeServerURL, currentConfig, configLoaded, offered,
                   published>>
    /\ UNCHANGED serialVars

\* isProvisioned or one of the string getters
NvsGet ==
    \/ LET r == scopedGet(Preferences(store), KEY_PROVISIONED, FALSE)
       IN  Returned("get", KEY_PROVISIONED, r.value, r.p)
    \/ \E k \in StringKeys :
          LET r == scopedGet(Preferences(store), k.key, "")
          IN  Returned("get", k.key, r.value, r.p)

\* setProvisioned or one of the string setters
NvsSet ==
    \/ \E value \in BOOLEAN :
          Returned("set", KEY_PROVISIONED, value,
                   scopedPutBool(Preferences(store), KEY_PROVISIONED, value))
    \/ \E k \in StringKeys : \E value \in k.values :
          Returned("set", k.key, value, scopedPut(Preferences(store), k.key, k.max, value))

NvsClearAll == Returned("clearAll", Null, Null, scopedClear(Preferences(store)))

NvsGetConfigSummary ==
    LET r == getConfigSummary(Preferences(store))
    IN  Returned("getConfigSummary", Null, r.json, r.p)

NvsNext == NvsGet \/ NvsSet \/ NvsClearAll \/ NvsGetConfigSummary

NvsSpec == NvsInit /\ [][NvsNext]_vars

-----------------------------------------------------------------------------
(* Vocabulary of the properties                                            *)

IsJson(l) == l.json

\* the protocol responses among the lines written
Responses(lines) == SelectSeq(lines, IsJson)

Response(status, message) == JsonLine([status |-> status, msg |-> message])

\* the cmd of a text handed to executeCommand, Null if it has none
CmdOf(text) ==
    LET r == deserializeJson(text)
    IN  IF r.error THEN Null ELSE Field(r.doc, "cmd")

\* the entries of the log in which executeCommand ran the command cmd
Ran(cmd) == {i \in DOMAIN log : log[i].handed # Null /\ CmdOf(log[i].handed[1]) = <<cmd>>}

\* a command starting on the store s in a session that has written nothing
Fresh(s) == [store |-> s, out |-> <<>>, restartRequested |-> FALSE]

Configured(s) == getWiFiSSID(s) # "" /\ getServerURL(s) # ""

-----------------------------------------------------------------------------
\* what an entry of the log says of the provisioned flag
C1_Entries ==
    \A i \in DOMAIN log :
        LET e == log[i]
        IN  /\ (~isProvisioned(e.pre) /\ isProvisioned(e.post))
                  => (i \in Ran("provision") /\ Configured(e.pre))
            /\ (i \in Ran("provision") /\ Configured(e.pre))
                  => /\ isProvisioned(e.post)
                     /\ Responses(e.written) = <<Response("ok", "provisioned")>>

\* a step that sets the provisioned flag has an entry in the log
C1_Step ==
    (~isProvisioned(store) /\ isProvisioned(store'))
        => \E i \in DOMAIN log' : ~isProvisioned(log'[i].pre) /\ isProvisioned(log'[i].post)

\* C1: the provisioned flag goes from false to true only in a provision
\* command executed while the stored SSID and server URL are both non-empty;
\* every provision command executed in that condition sets the flag and
\* answers {status:ok, msg:provisioned}; nothing else sets the flag.
C1_ProvisionGuard == [](C1_Entries) /\ [][C1_Step]_vars

C1_Witness ==
    \E i \in Ran("provision") : ~isProvisioned(log[i].pre) /\ isProvisioned(log[i].post)

\* C2: provision answers wifi_not_configured when the stored SSID is empty
\* (with or without a server URL) and server_not_configured when the SSID is
\* set and the URL is empty; in both cases the store and the restart flag are
\* as they were.
C2_ProvisionRefused ==
    \A i \in Ran("provision") :
        LET e == log[i]
            refusal == IF getWiFiSSID(e.pre) = "" THEN "wifi_not_configured"
                       ELSE "server_not_configured"
        IN  ~Configured(e.pre)
              => /\ Responses(e.written) = <<Response("error", refusal)>>
                 /\ e.post = e.pre
                 /\ e.restartAfter = e.restartBefore

C2_Witness ==
    \E i \in Ran("provision") :
        /\ getWiFiSSID(log[i].pre) = ""
        /\ getServerURL(log[i].pre) # ""
        /\ log[i].written = <<Response("error", "wifi_not_configured")>>

\* C3: whenever setup has passed the isProvisioned() check and gone on to
\* normal operation, the stored SSID and server URL are both non-empty.
C3_NeverRunsUnconfigured == pc = "running" => Configured(store)

\* C4: while every set_wifi and set_server sent since the last reset was
\* within the length limits, get_config reports the ssid of the last set_wifi
\* and the url of the last set_server (empty if there was none).
C4_ReadsBackLastWritten ==
    \A i \in Ran("get_config") :
        LET e == log[i]
        IN  e.sent.within
              => /\ Len(Responses(e.written)) = 1
                 /\ Responses(e.written)[1].doc.config.wifi_ssid = e.sent.ssid
                 /\ Responses(e.written)[1].doc.config.server_url = e.sent.url

C4_Witness ==
    \E i \in Ran("get_config") :
        /\ log[i].sent.within
        /\ log[i].sent.ssid = "Net2"
        /\ log[i].sent.url = "http://x"

\* C5: no response depends on a stored password: a command gets the same
\* response in every store that differs from the one it ran on only in
\* wifi_pass and wifi_pass_bk.
C5_PasswordsNeverEchoed ==
    \A i \in DOMAIN log : \A p, q \in Passwords :
        LET e == log[i]
        IN  e.handed # Null
              => Responses(executeCommand(Fresh(WithPasswords(e.pre, p, q)), e.handed[1]).out)
                   = Responses(e.written)

C5_Witness ==
    /\ getWiFiPassword(store) = "pw"
    /\ getWiFiPasswordBackup(store) = "pw2"
    /\ Ran("get_config") # {}

\* C6: after a reset command the store is in its default state, so that
\* get_config reports provisioned=false with empty strings and get_info
\* reports provisioned=false.
DefaultConfig ==
    [provisioned |-> FALSE, wifi_ssid |-> "", wifi_ssid_backup |-> "", server_url |-> ""]

C6_ResetRestoresDefaults ==
    \A i \in Ran("reset") :
        LET s == log[i].post
        IN  /\ ~isProvisioned(s)
            /\ getWiFiSSID(s) = "" /\ getWiFiPassword(s) = ""
            /\ getWiFiSSIDBackup(s) = "" /\ getWiFiPasswordBackup(s) = ""
            /\ getServerURL(s) = ""
            /\ sendConfig(Fresh(s)).out = <<JsonLine([status |-> "ok", config |-> DefaultConfig])>>
            /\ sendDeviceInfo(Fresh(s)).out[1].doc.provisioned = FALSE
            /\ (i + 1 \in Ran("get_config")
                  => Responses(log[i + 1].written)
                       = <<JsonLine([status |-> "ok", config |-> DefaultConfig])>>)

C6_Witness ==
    \E i \in Ran("reset") :
        /\ getWiFiSSID(log[i].pre) # ""
        /\ getWiFiPassword(log[i].pre) # ""
        /\ getWiFiSSIDBackup(log[i].pre) # ""
        /\ i + 1 \in Ran("get_config")

\* C7: every non-empty line that fits the buffer and is ended by a terminator
\* gets exactly one JSON response, whatever its content, and the responses
\* are written in the order of the lines.
RECURSIVE ResponsesOf(_)
ResponsesOf(entries) ==
    IF entries = <<>> THEN <<>>
    ELSE Responses(Head(entries).written) \o ResponsesOf(Tail(entries))

Fits(l) == l # <<>> /\ Len(l) <= SERIAL_BUFFER_SIZE - 1

C7_OneResponsePerLine ==
    /\ \A i \in DOMAIN log :
          (log[i].kind = "eol" /\ Fits(log[i].line)) => Len(Responses(log[i].written)) = 1
    /\ Responses(out) = ResponsesOf(log)

C7_Witness ==
    \E i, j \in DOMAIN log :
        /\ i < j
        /\ log[i].kind = "eol" /\ Fits(log[i].line)
        /\ log[j].kind = "eol" /\ Fits(log[j].line)
        /\ log[i].written = <<Response("error", "missing_url")>>
        /\ log[j].written = <<Response("error", "invalid_json")>>

\* C8: an input line longer than the buffer limit, of any length, yields
\* exactly one command_too_long response.
C8_OneTooLongPerLine ==
    \A i \in DOMAIN log :
        (log[i].kind = "eol" /\ Len(log[i].line) > SERIAL_BUFFER_SIZE - 1)
            => log[i].tooLong = 1

\* C9: after more characters than the buffer limit without a terminator and
\* a command_too_long response, the next command is handed to executeCommand
\* exactly as sent and answered as in a fresh session with the same store.
RECURSIVE AfterJunk(_)
AfterJunk(l) == IF l # <<>> /\ Head(l) = X THEN AfterJunk(Tail(l)) ELSE l

C9_NextCommandIntact ==
    \A i \in DOMAIN log :
        LET e == log[i]
            command == AfterJunk(e.line)
        IN  (e.kind = "eol" /\ e.tooLong >= 1 /\ command # <<>>)
              => /\ e.handed = <<command>>
                 /\ Responses(e.written)
                       = Responses(executeCommand(Fresh(e.pre), command).out)

\* C10: every text handed to executeCommand is a complete line as the host
\* sent it between two terminators, never a fragment of an over-long line.
C10_NeverAFragment ==
    \A i \in DOMAIN log : log[i].handed # Null => log[i].handed[1] = log[i].line

-----------------------------------------------------------------------------
\* the member key of the command an entry of the log handed to executeCommand
Arg(e, key) == Field(deserializeJson(e.handed[1]).doc, key)

Oversized(x, max) == x # Null /\ Len(x[1]) > max

WithinLimits(s) ==
    /\ Len(getWiFiSSID(s)) <= MAX_SSID_LENGTH
    /\ Len(getWiFiSSIDBackup(s)) <= MAX_SSID_LENGTH
    /\ Len(getWiFiPassword(s)) <= MAX_PASSWORD_LENGTH
    /\ Len(getWiFiPasswordBackup(s)) <= MAX_PASSWORD_LENGTH
    /\ Len(getServerURL(s)) <= MAX_URL_LENGTH

\* C11: the stored wifi_ssid and wifi_ssid_bk are at most 32 characters,
\* wifi_pass and wifi_pass_bk at most 64 and server_url at most 256, in every
\* state and after every command; a set command given a longer value leaves
\* that key at its previous value.
C11_StoredWithinLimits ==
    /\ WithinLimits(store)
    /\ \A i \in DOMAIN log :
          LET e == log[i]
          IN  /\ WithinLimits(e.post)
              /\ (i \in Ran("set_wifi") /\ Oversized(Arg(e, "ssid"), MAX_SSID_LENGTH))
                    => getWiFiSSID(e.post) = getWiFiSSID(e.pre)
              /\ (i \in Ran("set_wifi") /\ Oversized(Arg(e, "password"), MAX_PASSWORD_LENGTH))
                    => getWiFiPassword(e.post) = getWiFiPassword(e.pre)
              /\ (i \in Ran("set_wifi_backup") /\ Oversized(Arg(e, "ssid"), MAX_SSID_LENGTH))
                    => getWiFiSSIDBackup(e.post) = getWiFiSSIDBackup(e.pre)
              /\ (i \in Ran("set_wifi_backup")
                    /\ Oversized(Arg(e, "password"), MAX_PASSWORD_LENGTH))
                    => getWiFiPasswordBackup(e.post) = getWiFiPasswordBackup(e.pre)
              /\ (i \in Ran("set_server") /\ Oversized(Arg(e, "url"), MAX_URL_LENGTH))
                    => getServerURL(e.post) = getServerURL(e.pre)

C11_Witness ==
    \E i \in Ran("set_wifi_backup") :
        /\ Oversized(Arg(log[i], "password"), MAX_PASSWORD_LENGTH)
        /\ getWiFiPasswordBackup(log[i].pre) = "pw2"
        /\ getWiFiPasswordBackup(log[i].post) = "pw2"

\* the commands that carry a value over its limit
OversizedCommands ==
    {i \in Ran("set_wifi") \cup Ran("set_wifi_backup") :
        /\ Arg(log[i], "ssid") # Null
        /\ \/ Oversized(Arg(log[i], "ssid"), MAX_SSID_LENGTH)
           \/ Oversized(Arg(log[i], "password"), MAX_PASSWORD_LENGTH)}
    \cup {i \in Ran("set_server") : Oversized(Arg(log[i], "url"), MAX_URL_LENGTH)}

\* C12: a set_wifi, set_wifi_backup or set_server command whose ssid,
\* password or url is over its length limit is answered with a status:error
\* response, never with status:ok.
C12_OversizedReported ==
    \A i \in OversizedCommands :
        LET r == Responses(log[i].written)
        IN  Len(r) = 1 /\ r[1].doc.status = "error"

\* C13: a set_wifi or set_wifi_backup command that carries both ssid and
\* password stores both or stores neither.
C13_BothOrNeither ==
    /\ \A i \in Ran("set_wifi") :
          LET e == log[i]
              ssid == Arg(e, "ssid")
              password == Arg(e, "password")
          IN  (ssid # Null /\ password # Null)
                => (getWiFiSSID(e.post) = ssid[1] <=> getWiFiPassword(e.post) = password[1])
    /\ \A i \in Ran("set_wifi_backup") :
          LET e == log[i]
              ssid == Arg(e, "ssid")
              password == Arg(e, "password")
          IN  (ssid # Null /\ password # Null)
                => (getWiFiSSIDBackup(e.post) = ssid[1]
                      <=> getWiFiPasswordBackup(e.post) = password[1])

-----------------------------------------------------------------------------
\* the processSerial call that just returned dispatched a command
Dispatched == \E i \in DOMAIN log : log[i].handed # Null

\* the line the call stopped in has not overflowed the buffer
MidLine == line # <<>> /\ Len(line) <= SERIAL_BUFFER_SIZE - 1

\* the lines that fit the buffer are dispatched as they were sent, also the
\* line that an earlier call left in the buffer
C19_Completed ==
    \A i \in DOMAIN log :
        (log[i].kind = "eol" /\ Fits(log[i].line)) => log[i].handed = <<log[i].line>>

\* C19 as stated: a processSerial call consumes the characters available and
\* returns; when the input runs out in the middle of a line it returns false
\* with the partial line in the buffer, and a later call dispatches the line
\* once its terminator arrives.
C19_FalseInMidLine ==
    polled # "no" =>
        /\ rx = <<>>
        /\ MidLine => (~commandProcessed /\ serialBuffer = line /\ bufferIndex = Len(line))
        /\ C19_Completed

\* C19, amended: a processSerial call consumes the characters available and
\* returns true if it dispatched a command and false if it dispatched none;
\* when the input runs out in the middle of a line that fits the buffer, the
\* partial line is in the buffer, and a later call dispatches the line once
\* its terminator arrives.
C19_NeverBlocks ==
    polled # "no" =>
        /\ rx = <<>>
        /\ commandProcessed <=> Dispatched
        /\ MidLine => (serialBuffer = line /\ bufferIndex = Len(line))
        /\ C19_Completed

C19_Witness ==
    /\ polled = "resumed"
    /\ log # <<>>
    /\ log[1].kind = "eol" /\ Fits(log[1].line)
    /\ log[1].handed = <<log[1].line>>
    /\ Len(log[1].line) > 1
    /\ commandProcessed
    /\ MidLine /\ serialBuffer = line

\* what an entry of the log says of the restart flag
C20_Entries ==
    \A i \in DOMAIN log :
        /\ log[i].restartBefore => log[i].restartAfter
        /\ (~log[i].restartBefore /\ log[i].restartAfter)
              => i \in Ran("provision") \cup Ran("reset") \cup Ran("reboot")

\* between the calls the flag stays set until the device restarts
C20_Step == (pc = "provisioning" /\ restartRequested) => (restartRequested' \/ pc' = "setup")

\* C20: once a successful provision, a reset or a reboot has set the restart
\* flag, no later command or input of the session clears it: it stays set
\* until the device restarts.
C20_RestartFlagTerminal == [](C20_Entries) /\ [][C20_Step]_vars

C20_Witness ==
    \E i \in DOMAIN log :
        log[i].restartBefore /\ log[i].restartAfter /\ log[i].handed # Null

-----------------------------------------------------------------------------
\* the calls of fetchConfig among the calls of the setup() or loop() that
\* just returned
Fetches == {i \in DOMAIN calls : calls[i].call = "fetchConfig"}

\* the member key of the document in the body of a response
Reported(response, key) == Field(deserializeJson(response.body).doc, key)

\* C14: a fetchConfig that fails (WiFi not connected, HTTP status other than
\* 200, unparsable body, success false or absent, config object missing)
\* returns false and leaves every field of the DeviceConfig, config_version
\* included, as it was before the call.
C14_FailedFetchKeepsConfig ==
    \A i \in Fetches :
        /\ (~calls[i].input.connected \/ calls[i].input.response \in FailedConfigs)
              => ~calls[i].result
        /\ ~calls[i].result => calls[i].after = calls[i].before
        /\ i = Len(calls) => currentConfig = calls[i].after

C14_Witness ==
    \E i \in Fetches :
        /\ ~calls[i].result
        /\ calls[i].input.connected
        /\ calls[i].input.response.code = 200
        /\ Reported(calls[i].input.response, "config") # Null
        /\ calls[i].before.config_version # DEFAULT_DEVICE_CONFIG.config_version
        /\ calls[i].before.display_refresh_on_heartbeat

\* the values the members of SparseMembers stand for
SparseValues ==
    [heartbeat_interval_seconds |-> 30,
     wifi_timeout_seconds |-> 20,
     display_refresh_on_heartbeat |-> FALSE,
     display_rotation |-> 2,
     show_logo |-> TRUE,
     screen_brightness |-> 80,
     deep_sleep_enabled |-> TRUE,
     wake_on_button |-> FALSE,
     template_id |-> 0,
     content_refresh_seconds |-> 900]

\* C15: a successful fetch is a sparse merge: whatever subset of the fields
\* the config object of the response carries, those fields take the values of
\* the response and every other field keeps its value of before the call.
C15_SparseMerge ==
    \A i \in Fetches :
        (calls[i].result /\ calls[i].input.response = SparseConfig(offered))
          => /\ \A f \in ConfigFields :
                   calls[i].after[f] = IF f \in offered THEN SparseValues[f]
                                       ELSE calls[i].before[f]
             /\ calls[i].after.config_version = calls[i].before.config_version
             /\ currentConfig = calls[i].after

C15_Witness ==
    \E i \in Fetches :
        /\ offered = {"display_rotation"}
        /\ calls[i].result
        /\ calls[i].input.response = SparseConfig(offered)
        /\ calls[i].before.display_rotation = 3
        /\ calls[i].before.screen_brightness = 50
        /\ calls[i].after.display_rotation = 2
        /\ calls[i].after.screen_brightness = 50

\* C16: needsRefresh(v) is true exactly when v differs from the local
\* config_version, for negative v as for any other; after a successful fetch
\* whose response carries config_version v, needsRefresh(v) is false.
C16_NeedsRefresh ==
    /\ \A v \in (0 - MaxVersion - 1) .. (MaxVersion + 1) :
          needsRefresh(currentConfig, v) <=> v # currentConfig.config_version
    /\ \A i \in Fetches :
          (calls[i].result /\ containsKey(deserializeJson(calls[i].input.response.body).doc,
                                          "config_version"))
            => ~needsRefresh(calls[i].after,
                             Reported(calls[i].input.response, "config_version")[1].v)

C16_Witness ==
    \E i \in Fetches :
        /\ calls[i].result
        /\ Reported(calls[i].input.response, "config_version") # Null
        /\ Reported(calls[i].input.response, "config_version")[1].v < 0
        /\ needsRefresh(calls[i].before, Reported(calls[i].input.response, "config_version")[1].v)
        /\ ~needsRefresh(currentConfig, Reported(calls[i].input.response, "config_version")[1].v)
        /\ needsRefresh(currentConfig, calls[i].before.config_version)

\* the heartbeats of the loop() that just returned
Beats == {i \in DOMAIN calls : calls[i].call = "sendHeartbeat"}

\* C17: in a heartbeat cycle whose heartbeat returns the failure sentinel,
\* nothing further happens: neither fetchConfig nor the render collaborator
\* is invoked, whatever display_refresh_on_heartbeat says.
C17_NothingAfterFailedHeartbeat ==
    \A i \in Beats : calls[i].result = -1 => Len(calls) = i

\* the config_version the server reported in the heartbeat i, Null if the
\* heartbeat brought none
ReportedVersion(i) ==
    IF calls[i].input.connected /\ calls[i].input.response.code = 200
    THEN Reported(calls[i].input.response, "config_version")
    ELSE Null

\* C18: in a heartbeat cycle in which the server reports a config_version,
\* not the failure sentinel, that differs from the local one, fetchConfig is
\* invoked, and if it succeeds the render collaborator is invoked in the same
\* cycle; when the reported version equals the local one, fetchConfig is not
\* invoked.
C18_FetchOnNewVersion ==
    \A i \in Beats :
        LET v == ReportedVersion(i)
        IN  (v # Null /\ v[1].v # -1)
              => IF v[1].v # calls[i].before.config_version
                 THEN /\ Len(calls) > i
                      /\ calls[i + 1].call = "fetchConfig"
                      /\ calls[i + 1].result
                            => (Len(calls) > i + 1 /\ calls[i + 2].call = "render")
                 ELSE Fetches = {}

-----------------------------------------------------------------------------
(* The store alone                                                         *)

\* C21: store access is scoped: every read or write of a key, in every
\* NVSConfig operation including getConfigSummary, happens while the
\* namespace is open (between the operation's open and its close), and the
\* namespace is closed again when the operation returns.
C21_AccessWhileOpen ==
    /\ ~preferences.started
    /\ \A i \in DOMAIN preferences.accesses : preferences.accesses[i].started

\* the getConfigSummary calls among the calls noted
Summaries == {i \in DOMAIN calls : calls[i].call = "getConfigSummary"}

\* C22: getConfigSummary masks passwords: whenever a non-empty wifi_pass
\* (or wifi_pass_bk) is stored, the corresponding member of the summary is
\* "****"; no member of the summary is the stored password text; and the
\* call changes no store key.
C22_SummaryMasksPasswords ==
    \A i \in Summaries :
        LET c == calls[i]
            password == getWiFiPassword(c.before)
            passwordBackup == getWiFiPasswordBackup(c.before)
        IN  /\ password # "" => c.result.wifi_password = "****"
            /\ passwordBackup # "" => c.result.wifi_password_backup = "****"
            /\ password # "" => c.result.wifi_password # password
            /\ passwordBackup # "" => c.result.wifi_password_backup # passwordBackup
            /\ c.after = c.before

-----------------------------------------------------------------------------
(* Frame of the commands                                                   *)

Commands ==
    {"get_info", "get_config", "set_wifi", "set_wifi_backup", "set_server", "provision",
     "reset", "reboot"}

\* text is handled without a write: malformed JSON, no cmd, get_info,
\* get_config, reboot, an unrecognized cmd, or a set command lacking its
\* ssid or url
NoWrite(text) ==
    LET r == deserializeJson(text)
        cmd == Field(r.doc, "cmd")
    IN  \/ r.error
        \/ cmd = Null
        \/ cmd[1] \in {"get_info", "get_config", "reboot"}
        \/ cmd[1] \notin Commands
        \/ cmd[1] \in {"set_wifi", "set_wifi_backup"} /\ Field(r.doc, "ssid") = Null
        \/ cmd[1] = "set_server" /\ Field(r.doc, "url") = Null

\* C23: commands with no write effect (get_info, get_config, reboot, an
\* unrecognized command, malformed JSON, a missing cmd, set_wifi /
\* set_wifi_backup / set_server lacking ssid or url) change no store key,
\* and of these only reboot schedules a restart.
C23_NoWriteFrame ==
    \A i \in DOMAIN log :
        LET e == log[i]
        IN  e.handed # Null /\ NoWrite(e.handed[1])
              => /\ e.post = e.pre
                 /\ e.restartAfter = (e.restartBefore \/ CmdOf(e.handed[1]) = <<"reboot">>)

C23_Witness ==
    \E i \in Ran("reboot"), j \in Ran("get_config") :
        /\ Configured(log[i].pre)
        /\ ~log[i].restartBefore
        /\ log[i].restartAfter
        /\ Configured(log[j].pre)

-----------------------------------------------------------------------------
(* The local config_version                                                *)

\* the call noted as calls[i] is a successful fetchConfig whose response
\* carries a top-level config_version
CarriesVersion(c) ==
    /\ c.call = "fetchConfig"
    /\ c.result
    /\ Reported(c.input.response, "config_version") # Null

C24_Calls ==
    \A i \in DOMAIN calls :
        LET c == calls[i]
        IN  IF CarriesVersion(c)
            THEN c.after.config_version = asInt(Reported(c.input.response, "config_version"))
            ELSE c.after.config_version = c.before.config_version

C24_Step ==
    currentConfig'.config_version # currentConfig.config_version
      => \E i \in DOMAIN calls' :
            /\ CarriesVersion(calls'[i])
            /\ calls'[i].before.config_version = currentConfig.config_version
            /\ calls'[i].after.config_version = currentConfig'.config_version

\* C24: the local config_version is never changed locally: it changes only
\* in a successful fetchConfig whose response carries a top-level
\* config_version, and then it becomes exactly that value; heartbeats,
\* needsRefresh, failed fetches, successful fetches without the field and
\* rendering leave it unchanged.
C24_VersionOnlyFromServer == [](C24_Calls) /\ [][C24_Step]_vars

C24_Witness ==
    /\ \E i \in Fetches :
          /\ CarriesVersion(calls[i])
          /\ calls[i].before.config_version = 1
          /\ calls[i].after.config_version = 0 - 1
    /\ currentConfig.config_version = 0 - 1

-----------------------------------------------------------------------------
(* template_id                                                             *)

\* the members of the config object of a response
ConfigOf(response) == asObject(Reported(response, "config")).members

\* C25: in a successful config merge, a template_id that is present with
\* value null sets the local template_id to 0, and a template_id that is
\* absent leaves the local template_id at its previous value.
C25_TemplateNullOrAbsent ==
    \A i \in Fetches :
        LET c == calls[i]
            config == ConfigOf(c.input.response)
        IN  c.result
              => IF containsKey(config, "template_id")
                 THEN isNull(Field(config, "template_id")) => c.after.template_id = 0
                 ELSE c.after.template_id = c.before.template_id

C25_Witness ==
    \E i \in Fetches :
        /\ calls[i].result
        /\ calls[i].before.template_id = 7
        /\ containsKey(ConfigOf(calls[i].input.response), "template_id")
        /\ isNull(Field(ConfigOf(calls[i].input.response), "template_id"))
        /\ calls[i].after.template_id = 0

C25_WitnessAbsent ==
    \E i \in Fetches :
        /\ calls[i].result
        /\ calls[i].before.template_id = 7
        /\ ~containsKey(ConfigOf(calls[i].input.response), "template_id")
        /\ calls[i].after.template_id = 7

-----------------------------------------------------------------------------
(* set_wifi without a password                                             *)

Keys ==
    {KEY_PROVISIONED, KEY_WIFI_SSID, KEY_WIFI_PASS, KEY_WIFI_SSID_BK, KEY_WIFI_PASS_BK,
     KEY_SERVER_URL}

\* the keys on which the stores s and t differ, in presence or in value
Changed(s, t) ==
    {k \in Keys : (k \in DOMAIN s) # (k \in DOMAIN t)
                    \/ (k \in DOMAIN s /\ k \in DOMAIN t /\ s[k] # t[k])}

\* the entries of the log that ran cmd with an ssid and without a password
RanWithoutPassword(cmd) ==
    {i \in Ran(cmd) :
        LET doc == deserializeJson(log[i].handed[1]).doc
        IN  Field(doc, "ssid") # Null /\ Field(doc, "password") = Null}

\* C26: a set_wifi (or set_wifi_backup) command without a password field
\* writes only the SSID key: the stored password of that network, the keys
\* of the other network, server_url and provisioned are left unchanged.
C26_OnlySsidWritten ==
    /\ \A i \in RanWithoutPassword("set_wifi") :
            Changed(log[i].pre, log[i].post) \subseteq {KEY_WIFI_SSID}
    /\ \A i \in RanWithoutPassword("set_wifi_backup") :
            Changed(log[i].pre, log[i].post) \subseteq {KEY_WIFI_SSID_BK}

C26_Witness ==
    /\ \E i \in RanWithoutPassword("set_wifi_backup") :
            /\ getWiFiPasswordBackup(log[i].pre) = "pw2"
            /\ Changed(log[i].pre, log[i].post) = {KEY_WIFI_SSID_BK}
    /\ getWiFiPasswordBackup(store) = "pw2"
    /\ getWiFiSSIDBackup(store) = "Bk3"

-----------------------------------------------------------------------------
(* Commands behind a restart request                                       *)

\* C27: once a command has set the restart flag, no command arriving after
\* it in that session (lines already buffered and drained by the same
\* processSerial call included) is executed or modifies the store before the
\* device restarts: the store at restart is the store as that command left
\* it.
C27_NothingBehindRestart ==
    \A i \in DOMAIN log :
        log[i].restartBefore => log[i].handed = Null /\ log[i].post = log[i].pre

-----------------------------------------------------------------------------
(* After a boot with the provisioned flag                                  *)

\* the device is running after a boot that found the provisioned flag, or
\* is booting again with the flag stored
FlagStored(s) == KEY_PROVISIONED \in DOMAIN s /\ s[KEY_PROVISIONED] = TRUE

BootedProvisioned == pc = "running" \/ (pc = "setup" /\ FlagStored(store))

C30_Step ==
    BootedProvisioned
      => /\ store' = store
         /\ pc' \in {"setup", "running"}
         /\ polled' = "no"
         /\ out' = <<>>

\* C30: once the device has booted with the provisioned flag true, the
\* serial provisioning handler is never run again and the store is never
\* modified: every key keeps its value for the rest of that boot and in all
\* later boots, whatever serial input arrives (reset cannot take effect).
C30_ProvisionedIsFinal == [](pc = "running" => FlagStored(store)) /\ [][C30_Step]_vars

\* a provisioned device, running, with a reset command received
C30_Witness ==
    /\ pc = "running"
    /\ runtimeSSID = "Net1"
    /\ FlagStored(store)
    /\ Len(rx) = 2
    /\ rx[1] = Cmd("reset")[1]
    /\ rx[2] = NL
    /\ sent.ssid = "Net1"

-----------------------------------------------------------------------------
(* The buffer index                                                        *)

\* C28: in every reachable state of the serial session, for any input
\* stream, 0 <= bufferIndex <= SERIAL_BUFFER_SIZE - 1, so the terminating
\* NUL written at dispatch (at serialBuffer[bufferIndex]) is inside the
\* buffer; and bufferIndex is 0 immediately after every dispatch and every
\* overflow report.
C28_IndexInBuffer ==
    /\ bufferIndex \in 0 .. SERIAL_BUFFER_SIZE - 1
    /\ Len(serialBuffer) = bufferIndex
    /\ \A i \in DOMAIN log :
          /\ log[i].indexBefore \in 0 .. SERIAL_BUFFER_SIZE - 1
          /\ log[i].indexAfter \in 0 .. SERIAL_BUFFER_SIZE - 1
          /\ (log[i].handed # Null \/ log[i].kind = "ovf") => log[i].indexAfter = 0

\* a full buffer, then the overflow report, then a dispatch
C28_Witness ==
    \E i, j \in DOMAIN log :
        /\ i < j
        /\ log[i].kind = "ovf"
        /\ log[i].indexBefore = SERIAL_BUFFER_SIZE - 1
        /\ log[i].indexAfter = 0
        /\ log[j].handed # Null
        /\ log[j].indexBefore > 0

-----------------------------------------------------------------------------
(* Version synchronization                                                 *)

Synchronized ==
    /\ currentConfig.config_version = published
    /\ ~needsRefresh(currentConfig, published)
    /\ Fetches = {}

\* C29: version synchronization converges: if WiFi stays connected, the
\* server reports one fixed config_version V in every heartbeat and every
\* config fetch succeeds, then eventually the device stops fetching: from
\* some cycle on the local config_version equals V and needsRefresh(V) is
\* false in every later cycle.
C29_Converges == <>[]Synchronized

\* the same for the versions that checkAndUpdateConfig does not take for the
\* failure sentinel
C29_ConvergesNonNegative == (published >= 0) => <>[]Synchronized

====
